---------------------------- MODULE Spec2Model ----------------------------
(***************************************************************************)
(* RedisDB (src/RedisDB/RedisDB.py): a gateway that bulk-loads the rows of *)
(* a CSV file into a Redis store (upload_csv_to_redis, "ReplaceAll"),      *)
(* reads every stored row back (redis_data_to_dataframe, "ScanAll") and    *)
(* reads the rows under the greatest keys, encodes their categorical       *)
(* columns and plots them (heatmap_using_recent_data, "ScanRecent").       *)
(*                                                                         *)
(* One writer process runs upload_csv_to_redis and one scanner process     *)
(* runs either scan; they interleave at single store calls (flushall, set, *)
(* keys, get).  Byte strings and text are sequences of character codes, so *)
(* that the byte order Python's sorted() uses on keys and values is the    *)
(* order computed here.                                                    *)
(***************************************************************************)
EXTENDS Integers, Sequences, FiniteSets

(***************************************************************************)
(* Bounds of the model.                                                    *)
(***************************************************************************)
\* longest CSV file of each small family; stores of at most this many keys
\* are enumerated by keys() in every order
MaxRecords == 2
\* largest store a scan starts from when it runs alone (record_0 .. record_10)
LongRecords == 11
\* the slice bound of ScanRecent ranges over 0..MaxLimit and RecentLimit
MaxLimit == 1
\* number of upload_csv_to_redis calls in one behaviour
MaxCalls == 1

\* the slice bound written in heatmap_using_recent_data
RecentLimit == 50000

(***************************************************************************)
(* Text: sequences of character codes.                                     *)
(***************************************************************************)
RecordPrefix == <<114, 101, 99, 111, 114, 100, 95>>          \* "record_"
ForeignKey == <<122>>                                        \* "z"
Sex == <<83, 101, 120>>
Stroke == <<83, 116, 114, 111, 107, 101>>
AgeCategory == <<65, 103, 101, 67, 97, 116, 101, 103, 111, 114, 121>>
Diabetic == <<68, 105, 97, 98, 101, 116, 105, 99>>
Smoking == <<83, 109, 111, 107, 105, 110, 103>>
HeartDisease == <<72, 101, 97, 114, 116, 68, 105, 115, 101, 97, 115, 101>>
BMI == <<66, 77, 73>>
Male == <<77, 97, 108, 101>>
Female == <<70, 101, 109, 97, 108, 101>>
Yes == <<89, 101, 115>>
No == <<78, 111>>
Age18 == <<49, 56, 45, 50, 52>>                              \* "18-24"
Age55 == <<53, 53, 45, 53, 57>>                              \* "55-59"
Age80 == <<56, 48, 32, 111, 114, 32, 111, 108, 100, 101, 114>> \* "80 or older"

\* str(idx) inside the f-string f'record_{idx}': decimal digits, unpadded
RECURSIVE Digits(_)
Digits(n) ==
    IF n < 10 THEN <<48 + n>> ELSE Digits(n \div 10) \o <<48 + (n % 10)>>

\* int(text) of a decimal numeral
RECURSIVE ParseInt(_)
ParseInt(s) ==
    IF s = <<>> THEN 0
    ELSE 10 * ParseInt(SubSeq(s, 1, Len(s) - 1)) + (s[Len(s)] - 48)

\* a < b for Python bytes / str: code by code, a proper prefix is smaller
RECURSIVE LexLess(_, _)
LexLess(a, b) ==
    IF a = <<>> THEN b # <<>>
    ELSE IF b = <<>> THEN FALSE
    ELSE IF Head(a) = Head(b) THEN LexLess(Tail(a), Tail(b))
    ELSE Head(a) < Head(b)

\* the key written for the record at position idx
KeyName(idx) == RecordPrefix \o Digits(idx)

(***************************************************************************)
(* Scalars and records (one row of the CSV as a dict, in column order).    *)
(***************************************************************************)
Str(s) == [t |-> "str", v |-> s]
Num(n) == [t |-> "num", v |-> <<n>>]
NaN == [t |-> "nan", v |-> <<>>]

Pair(k, x) == [k |-> k, x |-> x]

\* row i of the heart-disease file: six categorical columns and a number
HeartRow(i) ==
    << Pair(Sex, Str(IF i % 2 = 0 THEN Male ELSE Female)),
       Pair(Stroke, IF i % 4 = 1 THEN NaN ELSE Str(IF i % 3 = 0 THEN No ELSE Yes)),
       Pair(AgeCategory, Str(IF i % 3 = 0 THEN Age55 ELSE IF i % 3 = 1 THEN Age18 ELSE Age80)),
       Pair(Diabetic, Str(IF i % 2 = 0 THEN Yes ELSE No)),
       Pair(Smoking, Str(IF i % 3 = 2 THEN No ELSE Yes)),
       Pair(HeartDisease, Str(No)),
       Pair(BMI, Num(i)) >>

\* row i of a two-column file
MiniRow(i) ==
    << Pair(Sex, Str(IF i % 2 = 0 THEN Male ELSE Female)),
       Pair(Smoking, Str(IF i % 2 = 0 THEN Yes ELSE No)) >>

HeartRows(n) == [i \in 1..n |-> HeartRow(i - 1)]
MiniRows(n) == [i \in 1..n |-> MiniRow(i - 1)]
\* the heart rows in reverse order
ReversedRows(n) == [i \in 1..n |-> HeartRow(n - i)]

\* what pd.read_csv(csv_path) followed by to_dict(orient='records') gives:
\* a failure (ok = FALSE) or the list of rows
Csv(rows) == [ok |-> TRUE, rows |-> rows]
Unreadable == [ok |-> FALSE, rows |-> <<>>]
CsvFiles ==
    {Csv(HeartRows(n)) : n \in 0..MaxRecords}
    \cup {Csv(MiniRows(MaxRecords)), Csv(ReversedRows(MaxRecords)), Unreadable}

(***************************************************************************)
(* JSON text as a sequence of tokens.                                      *)
(***************************************************************************)
Tok(kind, s) == [tok |-> kind, s |-> s]

\* variant: a missing value written as the string "null"
LiteralNullString(x) ==
    IF x.t = "str" THEN Tok("string", x.v)
    ELSE IF x.t = "num" THEN Tok("number", Digits(x.v[1]))
    ELSE Tok("string", <<110, 117, 108, 108>>)

\* the literal json.dumps writes for a scalar
Literal(x) ==
    IF x.t = "str" THEN Tok("string", x.v)
    ELSE IF x.t = "num" THEN Tok("number", Digits(x.v[1]))
    ELSE Tok("NaN", <<>>)

\* the scalar json.loads reads from a literal
Scalar(tk) ==
    IF tk.tok = "string" THEN Str(tk.s)
    ELSE IF tk.tok = "number" THEN Num(ParseInt(tk.s))
    ELSE NaN

RECURSIVE Members(_)
Members(record) ==
    IF record = <<>> THEN <<>>
    ELSE <<Tok("key", Head(record).k), Literal(Head(record).x)>>
         \o (IF Len(record) > 1 THEN <<Tok(",", <<>>)>> ELSE <<>>)
         \o Members(Tail(record))

\* json.dumps(record)
dumps(record) == <<Tok("{", <<>>)>> \o Members(record) \o <<Tok("}", <<>>)>>

\* whether json.loads accepts the text as an object of scalars
IsJson(text) ==
    /\ Len(text) >= 2
    /\ text[1].tok = "{"
    /\ text[Len(text)].tok = "}"
    /\ LET body == SubSeq(text, 2, Len(text) - 1)
       IN  \/ body = <<>>
           \/ /\ Len(body) % 3 = 2
              /\ \A j \in 1..Len(body) :
                    IF j % 3 = 1 THEN body[j].tok = "key"
                    ELSE IF j % 3 = 2 THEN body[j].tok \in {"string", "number", "NaN"}
                    ELSE body[j].tok = ","

\* json.loads(text), for a text IsJson accepts
loads(text) ==
    LET body == SubSeq(text, 2, Len(text) - 1)
    IN  [j \in 1..((Len(body) + 1) \div 3) |->
            Pair(body[3 * j - 2].s, Scalar(body[3 * j - 1]))]

(***************************************************************************)
(* The store: a function from keys to values.                              *)
(***************************************************************************)
EmptyStore == [k \in {} |-> <<>>]

\* variant: a flush that clears nothing
FlushNothing(s) == s

\* redis_client.flushall()
FlushAll(s) == EmptyStore

\* redis_client.set(key, value)
Set(s, key, value) ==
    [k \in (DOMAIN s) \cup {key} |-> IF k = key THEN value ELSE s[k]]

\* the store after the first n rows were written to a cleared store
Loaded(rows, n) ==
    [k \in {KeyName(i) : i \in 0..(n - 1)} |->
        dumps(rows[(CHOOSE i \in 0..(n - 1) : KeyName(i) = k) + 1])]

\* a value that is no JSON text, under a key no upload writes
ForeignStore == [k \in {ForeignKey} |-> <<>>]

\* what the store may hold before the first call
PriorStores ==
    {EmptyStore, ForeignStore, Loaded(HeartRows(2), 2), Loaded(MiniRows(2), 2)}

(***************************************************************************)
(* Data frames: pd.DataFrame(list of dicts).                               *)
(***************************************************************************)
Keys(record) == {record[j].k : j \in 1..Len(record)}

\* record[col], or NaN where the dict has no such key
Lookup(record, col) ==
    IF col \in Keys(record)
    THEN record[CHOOSE j \in 1..Len(record) : record[j].k = col].x
    ELSE NaN

\* the keys of a dict, in its order
KeySeq(record) == [j \in 1..Len(record) |-> record[j].k]

\* cols followed by the keys of record that cols lacks, in the dict's order
AddColumns(cols, record) ==
    cols \o SelectSeq(KeySeq(record), LAMBDA k : \A c \in 1..Len(cols) : cols[c] # k)

\* the columns of the frame: every key, in order of first appearance
RECURSIVE Columns(_)
Columns(data) ==
    IF data = <<>> THEN <<>>
    ELSE AddColumns(Columns(SubSeq(data, 1, Len(data) - 1)), data[Len(data)])

\* pd.DataFrame(data): one row per dict, NaN where a dict lacks a column
DataFrame(data) ==
    LET cols == Columns(data)
    IN  [columns |-> cols,
         rows |-> [i \in 1..Len(data) |->
                      [c \in 1..Len(cols) |-> Pair(cols[c], Lookup(data[i], cols[c]))]]]

\* pd.DataFrame()
EmptyFrame == [columns |-> <<>>, rows |-> <<>>]

\* categorical_cols
CategoricalCols == <<Sex, Stroke, AgeCategory, Diabetic, Smoking, HeartDisease>>

\* a < b for two scalars of one type
ScalarLess(a, b) ==
    IF a.t = "num" THEN a.v[1] < b.v[1] ELSE LexLess(a.v, b.v)

\* the values of a set in ascending order
RECURSIVE SortValues(_)
SortValues(S) ==
    IF S = {} THEN <<>>
    ELSE LET m == CHOOSE x \in S : \A y \in S \ {x} : ScalarLess(x, y)
         IN  <<m>> \o SortValues(S \ {m})

\* the non-null values of a column
ColumnValues(df, col) ==
    {Lookup(df.rows[i], col) : i \in 1..Len(df.rows)} \ {NaN}

\* variant: the categories in order of first appearance
CategoriesAsSeen(df, col) ==
    LET S == ColumnValues(df, col)
        first(x) == CHOOSE i \in 1..Len(df.rows) :
                        /\ Lookup(df.rows[i], col) = x
                        /\ \A j \in 1..(i - 1) : Lookup(df.rows[j], col) # x
    IN  [r \in 1..Cardinality(S) |->
            CHOOSE x \in S : Cardinality({y \in S : first(y) < first(x)}) = r - 1]

\* pd.Categorical(column).categories: the distinct non-null values, sorted
Categories(df, col) == SortValues(ColumnValues(df, col))

\* .cat.codes of one value: its position in the categories, -1 for null
Code(cats, x) ==
    IF x = NaN THEN -1
    ELSE (CHOOSE j \in 1..Len(cats) : cats[j] = x) - 1

\* whether df_recent[col] raises KeyError for some categorical column
MissingColumn(df) ==
    \E c \in 1..Len(CategoricalCols) :
        \A j \in 1..Len(df.columns) : df.columns[j] # CategoricalCols[c]

IsCategorical(col) == \E c \in 1..Len(CategoricalCols) : CategoricalCols[c] = col

\* the frame after the loop over categorical_cols
Encode(df) ==
    [columns |-> df.columns,
     rows |-> [i \in 1..Len(df.rows) |->
                 [c \in 1..Len(df.columns) |->
                    LET col == df.columns[c]
                    IN  IF IsCategorical(col)
                        THEN Pair(col, Num(Code(Categories(df, col), df.rows[i][c].x)))
                        ELSE df.rows[i][c]]]]

(***************************************************************************)
(* Key enumeration and ordering.                                           *)
(***************************************************************************)
\* variant: the keys by descending index, a shorter numeral being smaller
RECURSIVE SortedByIndex(_)
SortedByIndex(S) ==
    IF S = {} THEN <<>>
    ELSE LET m == CHOOSE x \in S : \A y \in S \ {x} :
                      Len(y) < Len(x) \/ (Len(y) = Len(x) /\ LexLess(y, x))
         IN  <<m>> \o SortedByIndex(S \ {m})

\* sorted(keys, reverse=True) of a set of distinct keys
RECURSIVE SortedReverse(_)
SortedReverse(S) ==
    IF S = {} THEN <<>>
    ELSE LET m == CHOOSE x \in S : \A y \in S \ {x} : LexLess(y, x)
         IN  <<m>> \o SortedReverse(S \ {m})

Reverse(s) == [i \in 1..Len(s) |-> s[Len(s) + 1 - i]]

\* variant: a slice one element too long
TakeOneMore(s, n) == SubSeq(s, 1, IF n + 1 < Len(s) THEN n + 1 ELSE Len(s))

\* s[:n]
Take(s, n) == SubSeq(s, 1, IF n < Len(s) THEN n ELSE Len(s))

\* the orders in which redis_client.keys() may list the keys: any order for
\* a small store, ascending or descending for a larger one
Enumerations(S) ==
    IF Cardinality(S) <= MaxRecords
    THEN {s \in [1..Cardinality(S) -> S] :
            \A i, j \in 1..Cardinality(S) : i # j => s[i] # s[j]}
    ELSE {SortedReverse(S), Reverse(SortedReverse(S))}

\* sorted(self.redis_client.keys(), reverse=True)[:limit]
RecentKeys(s, limit) == Take(SortedReverse(DOMAIN s), limit)

\* the values the slice bound takes
Limits == (0..MaxLimit) \cup {RecentLimit}

(***************************************************************************)
(* State.                                                                  *)
(***************************************************************************)
VARIABLES
    store,      \* the Redis store
    prior,      \* the store as the current (or last) upload found it
    wpc,        \* upload_csv_to_redis: "idle", "flush", "read", "set"
    wcsv,       \* its csv_path, as the file's content
    widx,       \* its loop index idx
    wret,       \* its result: "none", "True", "False", "raised"
    wfail,      \* the call that failed in it, or "none"
    wcalls,     \* number of uploads started
    spc,        \* the scan: "idle", "count", "keys", "get", "frame"
    sop,        \* "all" (redis_data_to_dataframe), "recent" (heatmap_...)
    slimit,     \* the slice bound of the recent scan
    skeys,      \* the keys it iterates over
    sidx,       \* number of keys fetched
    sdata,      \* data / recent_data
    sdf,        \* df / df_recent
    sret,       \* its result: "none", "frame", "heatmap", "None", "raised"
    sfail,      \* the exception it caught, or "none"
    sepoch      \* number of uploads that had returned when the scan began

wvars == <<store, prior, wpc, wcsv, widx, wret, wfail, wcalls>>
svars == <<spc, sop, slimit, skeys, sidx, sdata, sdf, sret, sfail, sepoch>>
vars == <<store, prior, wpc, wcsv, widx, wret, wfail, wcalls,
          spc, sop, slimit, skeys, sidx, sdata, sdf, sret, sfail, sepoch>>

Init ==
    /\ store \in PriorStores
    /\ prior = store
    /\ wpc = "idle" /\ wcsv = Unreadable /\ widx = 0
    /\ wret = "none" /\ wfail = "none" /\ wcalls = 0
    /\ spc = "idle" /\ sop = "all" /\ slimit = 0
    /\ skeys = <<>> /\ sidx = 0 /\ sdata = <<>> /\ sdf = EmptyFrame
    /\ sret = "none" /\ sfail = "none" /\ sepoch = 0

(***************************************************************************)
(* upload_csv_to_redis(csv_path)                                           *)
(***************************************************************************)
\* how the method ends when flushall() raises: the call stands before the
\* try block, so the exception leaves the method
FlushRaised == "raised"

Upload(csv) ==
    /\ wpc = "idle" /\ wcalls < MaxCalls
    /\ wpc' = "flush" /\ wcsv' = csv /\ widx' = 0
    /\ wret' = "none" /\ wfail' = "none" /\ wcalls' = wcalls + 1
    /\ prior' = store
    /\ UNCHANGED <<store, svars>>

\* line 60: self.redis_client.flushall()
Flush ==
    /\ wpc = "flush"
    /\ store' = FlushAll(store)
    /\ wpc' = "read"
    /\ UNCHANGED <<prior, wcsv, widx, wret, wfail, wcalls, svars>>

FlushFails ==
    /\ wpc = "flush"
    /\ wpc' = "idle" /\ wret' = FlushRaised /\ wfail' = "flushall"
    /\ UNCHANGED <<store, prior, wcsv, widx, wcalls, svars>>

\* lines 63-65: read_csv, to_dict
ReadCsv ==
    /\ wpc = "read" /\ wcsv.ok
    /\ wpc' = "set"
    /\ UNCHANGED <<store, prior, wcsv, widx, wret, wfail, wcalls, svars>>

ReadCsvFails ==
    /\ wpc = "read" /\ ~wcsv.ok
    /\ wpc' = "idle" /\ wret' = "False" /\ wfail' = "read_csv"
    /\ UNCHANGED <<store, prior, wcsv, widx, wcalls, svars>>

\* variant: the rows written from the last to the first
SetRecordBackwards ==
    /\ wpc = "set" /\ widx < Len(wcsv.rows)
    /\ store' = Set(store, KeyName(Len(wcsv.rows) - 1 - widx),
                    dumps(wcsv.rows[Len(wcsv.rows) - widx]))
    /\ widx' = widx + 1
    /\ UNCHANGED <<prior, wpc, wcsv, wret, wfail, wcalls, svars>>

\* lines 68-71: one turn of the loop
SetRecord ==
    /\ wpc = "set" /\ widx < Len(wcsv.rows)
    /\ store' = Set(store, KeyName(widx), dumps(wcsv.rows[widx + 1]))
    /\ widx' = widx + 1
    /\ UNCHANGED <<prior, wpc, wcsv, wret, wfail, wcalls, svars>>

\* variant: a failed write that puts the earlier content back
SetRecordFailsRestoring(call) ==
    /\ wpc = "set" /\ widx < Len(wcsv.rows)
    /\ wpc' = "idle" /\ wret' = "False" /\ wfail' = call
    /\ store' = prior
    /\ UNCHANGED <<prior, wcsv, widx, wcalls, svars>>

\* json.dumps or set raises: lines 77-79
SetRecordFails(call) ==
    /\ wpc = "set" /\ widx < Len(wcsv.rows)
    /\ wpc' = "idle" /\ wret' = "False" /\ wfail' = call
    /\ UNCHANGED <<store, prior, wcsv, widx, wcalls, svars>>

\* lines 73-74
UploadComplete ==
    /\ wpc = "set" /\ widx = Len(wcsv.rows)
    /\ wpc' = "idle" /\ wret' = "True"
    /\ UNCHANGED <<store, prior, wcsv, widx, wfail, wcalls, svars>>

(***************************************************************************)
(* redis_data_to_dataframe() and heatmap_using_recent_data()               *)
(***************************************************************************)
Begin(op, limit, pc) ==
    /\ spc = "idle"
    /\ spc' = pc /\ sop' = op /\ slimit' = limit
    /\ skeys' = <<>> /\ sidx' = 0 /\ sdata' = <<>> /\ sdf' = EmptyFrame
    /\ sret' = "none" /\ sfail' = "none"
    /\ sepoch' = IF wpc = "idle" THEN wcalls ELSE wcalls - 1
    /\ UNCHANGED wvars

ScanAll == Begin("all", 0, "count")

ScanRecent(limit) == Begin("recent", limit, "keys")

\* the scan ends with the failure value and the exception it caught
Fails(e) ==
    /\ spc' = "idle" /\ sret' = "None" /\ sfail' = e
    /\ UNCHANGED <<sop, slimit, skeys, sidx, sdata, sdf, sepoch, wvars>>

\* line 93: total_keys = len(self.redis_client.keys())
CountKeys ==
    /\ spc = "count"
    /\ spc' = "keys"
    /\ UNCHANGED <<sop, slimit, skeys, sidx, sdata, sdf, sret, sfail, sepoch, wvars>>

\* keys() raises at line 93, 96 or 137
KeysFails ==
    /\ spc \in {"count", "keys"}
    /\ Fails("RedisError")

\* line 96: the keys the loop iterates over
AllKeys ==
    /\ spc = "keys" /\ sop = "all"
    /\ \E ks \in Enumerations(DOMAIN store) :
          /\ skeys' = ks
          /\ spc' = IF ks = <<>> THEN "frame" ELSE "get"
    /\ UNCHANGED <<sop, slimit, sidx, sdata, sdf, sret, sfail, sepoch, wvars>>

\* line 137
SortedKeys ==
    /\ spc = "keys" /\ sop = "recent"
    /\ skeys' = RecentKeys(store, slimit)
    /\ spc' = IF skeys' = <<>> THEN "frame" ELSE "get"
    /\ UNCHANGED <<sop, slimit, sidx, sdata, sdf, sret, sfail, sepoch, wvars>>

\* variant: an absent value is decoded like any other, which raises
GetUnchecked ==
    /\ spc = "get"
    /\ IF skeys[sidx + 1] \in DOMAIN store
       THEN /\ IsJson(store[skeys[sidx + 1]])
            /\ sdata' = Append(sdata, loads(store[skeys[sidx + 1]]))
            /\ sidx' = sidx + 1
            /\ spc' = IF sidx + 1 = Len(skeys) THEN "frame" ELSE "get"
            /\ UNCHANGED <<sop, slimit, skeys, sdf, sret, sfail, sepoch, wvars>>
       ELSE Fails("AttributeError")

\* lines 97-101 and 139-143: get, decode, json.loads, append; an absent
\* value is passed over
Get ==
    /\ spc = "get"
    /\ LET key == skeys[sidx + 1]
       IN  /\ key \in DOMAIN store => IsJson(store[key])
           /\ sdata' = IF key \in DOMAIN store
                       THEN Append(sdata, loads(store[key])) ELSE sdata
    /\ sidx' = sidx + 1
    /\ spc' = IF sidx + 1 = Len(skeys) THEN "frame" ELSE "get"
    /\ UNCHANGED <<sop, slimit, skeys, sdf, sret, sfail, sepoch, wvars>>

\* get() raises
GetFails ==
    /\ spc = "get"
    /\ Fails("RedisError")

\* json.loads raises on the value fetched
LoadsFails ==
    /\ spc = "get"
    /\ skeys[sidx + 1] \in DOMAIN store
    /\ ~IsJson(store[skeys[sidx + 1]])
    /\ Fails("JSONDecodeError")

\* variant: no data is reported as a failure
ReturnFrameOrNone ==
    /\ spc = "frame" /\ sop = "all"
    /\ sdf' = IF sdata # <<>> THEN DataFrame(sdata) ELSE EmptyFrame
    /\ spc' = "idle" /\ sret' = IF sdata # <<>> THEN "frame" ELSE "None"
    /\ UNCHANGED <<sop, slimit, skeys, sidx, sdata, sfail, sepoch, wvars>>

\* lines 104-109
ReturnFrame ==
    /\ spc = "frame" /\ sop = "all"
    /\ sdf' = IF sdata # <<>> THEN DataFrame(sdata) ELSE EmptyFrame
    /\ spc' = "idle" /\ sret' = "frame"
    /\ UNCHANGED <<sop, slimit, skeys, sidx, sdata, sfail, sepoch, wvars>>

\* lines 146-152 where a categorical column is missing from the frame
EncodeFails ==
    /\ spc = "frame" /\ sop = "recent"
    /\ MissingColumn(DataFrame(sdata))
    /\ sdf' = DataFrame(sdata)
    /\ spc' = "idle" /\ sret' = "None" /\ sfail' = "KeyError"
    /\ UNCHANGED <<sop, slimit, skeys, sidx, sdata, sepoch, wvars>>

\* lines 146-166: the frame is encoded and plotted
Heatmap ==
    /\ spc = "frame" /\ sop = "recent"
    /\ ~MissingColumn(DataFrame(sdata))
    /\ sdf' = Encode(DataFrame(sdata))
    /\ spc' = "idle" /\ sret' = "heatmap"
    /\ UNCHANGED <<sop, slimit, skeys, sidx, sdata, sfail, sepoch, wvars>>

\* lines 156-164: corr, heatmap or show raises
PlotFails ==
    /\ spc = "frame" /\ sop = "recent"
    /\ ~MissingColumn(DataFrame(sdata))
    /\ sdf' = Encode(DataFrame(sdata))
    /\ spc' = "idle" /\ sret' = "None" /\ sfail' = "PlotError"
    /\ UNCHANGED <<sop, slimit, skeys, sidx, sdata, sepoch, wvars>>

Next ==
    \/ \E csv \in CsvFiles : Upload(csv)
    \/ Flush
    \/ FlushFails
    \/ ReadCsv
    \/ ReadCsvFails
    \/ SetRecord
    \/ \E call \in {"dumps", "set"} : SetRecordFails(call)
    \/ UploadComplete
    \/ ScanAll
    \/ \E limit \in Limits : ScanRecent(limit)
    \/ CountKeys
    \/ KeysFails
    \/ AllKeys
    \/ SortedKeys
    \/ Get
    \/ GetFails
    \/ LoadsFails
    \/ ReturnFrame
    \/ EncodeFails
    \/ Heatmap
    \/ PlotFails

Spec == Init /\ [][Next]_vars

(***************************************************************************)
(* The scans alone, over stores loaded earlier: no upload runs.            *)
(***************************************************************************)
ScanStores ==
    PriorStores \cup {Loaded(HeartRows(n), n) : n \in 0..LongRecords}

InitScan ==
    /\ store \in ScanStores
    /\ prior = store
    /\ wpc = "idle" /\ wcsv = Unreadable /\ widx = 0
    /\ wret = "none" /\ wfail = "none" /\ wcalls = 0
    /\ spc = "idle" /\ sop = "all" /\ slimit = 0
    /\ skeys = <<>> /\ sidx = 0 /\ sdata = <<>> /\ sdf = EmptyFrame
    /\ sret = "none" /\ sfail = "none" /\ sepoch = 0

NextScan ==
    \/ ScanAll
    \/ \E limit \in Limits : ScanRecent(limit)
    \/ CountKeys
    \/ KeysFails
    \/ AllKeys
    \/ SortedKeys
    \/ Get
    \/ GetFails
    \/ LoadsFails
    \/ ReturnFrame
    \/ EncodeFails
    \/ Heatmap
    \/ PlotFails

SpecScan == InitScan /\ [][NextScan]_vars

(***************************************************************************)
(* Properties.                                                             *)
(***************************************************************************)
UploadReturned == wpc = "idle" /\ wret # "none"
ScanReturned == spc = "idle" /\ sret # "none"

\* no upload ran or began since the scan began
Undisturbed == wcalls = sepoch

\* the keys record_0 .. record_{n-1}
RecordKeys(n) == {KeyName(i) : i \in 0..(n - 1)}

\* the position a key record_<i> names
IndexOf(key) == ParseInt(SubSeq(key, Len(RecordPrefix) + 1, Len(key)))

Count(seq, x) == Cardinality({i \in 1..Len(seq) : seq[i] = x})

\* the same elements with the same multiplicities
SameBag(a, b) ==
    /\ Len(a) = Len(b)
    /\ \A i \in 1..Len(a) : Count(a, a[i]) = Count(b, a[i])

\* the store holds exactly the first n rows under record_0 .. record_{n-1}
HoldsRows(s, rows, n) ==
    /\ DOMAIN s = RecordKeys(n)
    /\ \A i \in 0..(n - 1) :
          IsJson(s[KeyName(i)]) /\ loads(s[KeyName(i)]) = rows[i + 1]

\* C1: no operation lets a failure escape: every call ends with a returned
\* value (True, False, a frame, a heatmap, None), never with an exception
\* leaving the method.
C1_NoFailureEscapes == wret # "raised" /\ sret # "raised"

\* C2: a successful upload of N rows leaves exactly the keys record_0 ..
\* record_{N-1}, the value under record_i decoding to row i; and where the
\* store it started from was already the result of uploading the same rows,
\* the store is the same afterwards.
C2_ReplaceAllPost ==
    (UploadReturned /\ wret = "True") =>
        /\ HoldsRows(store, wcsv.rows, Len(wcsv.rows))
        /\ HoldsRows(prior, wcsv.rows, Len(wcsv.rows)) => store = prior

\* an upload of at least one row succeeded over other content
C2_Witness ==
    /\ UploadReturned /\ wret = "True"
    /\ Len(wcsv.rows) = 1
    /\ DOMAIN prior # {} /\ \A k \in DOMAIN prior : k \notin DOMAIN store \/ store[k] # prior[k]

\* an upload of rows succeeded on the store an upload of the same rows left
C2_SameInputAgain ==
    /\ UploadReturned /\ wret = "True"
    /\ Len(wcsv.rows) >= 1
    /\ HoldsRows(prior, wcsv.rows, Len(wcsv.rows)) /\ store = prior

\* C3: an upload that fails after the flush returns False and leaves exactly
\* the rows written before the failing index, nothing of the earlier
\* content and nothing written later; a file that cannot be read leaves the
\* store empty.
C3_PartialOnFailure ==
    (UploadReturned /\ wret = "False") =>
        /\ widx < Len(wcsv.rows) \/ wfail = "read_csv"
        /\ HoldsRows(store, wcsv.rows, widx)
        /\ wfail = "read_csv" => store = EmptyStore

\* the write of the second row failed over a store that held other content
C3_Witness ==
    /\ UploadReturned /\ wret = "False" /\ wfail = "set"
    /\ widx = 1 /\ DOMAIN store = {KeyName(0)}
    /\ DOMAIN prior = {ForeignKey}

\* C4: a full scan after a successful upload, with no writer in between and
\* no store call failing, returns a frame of exactly N rows whose rows are
\* the uploaded rows with the same multiplicities, in whatever order the
\* keys were listed.
C4_RoundTrip ==
    (ScanReturned /\ sop = "all" /\ Undisturbed /\ wret = "True"
        /\ sfail # "RedisError") =>
        /\ sret = "frame"
        /\ Len(sdf.rows) = Len(wcsv.rows)
        /\ SameBag(sdf.rows, wcsv.rows)

\* two rows came back in the order opposite to the upload's
C4_Witness ==
    /\ ScanReturned /\ sop = "all" /\ Undisturbed /\ wret = "True"
    /\ sret = "frame" /\ Len(wcsv.rows) = 2
    /\ sdf.rows[1] = wcsv.rows[2] /\ sdf.rows[1] # wcsv.rows[1]

\* C8: a full scan of an empty store, whether nothing was ever loaded or the
\* last upload was a successful upload of no rows, returns an empty frame
\* and not the failure value (no store call failing).
C8_EmptyScan ==
    (ScanReturned /\ sop = "all" /\ Undisturbed /\ sfail # "RedisError"
        /\ \/ wcalls = 0 /\ store = EmptyStore
           \/ wret = "True" /\ wcsv.rows = <<>>) =>
        /\ sret = "frame"
        /\ sdf = EmptyFrame

\* a full scan returned after a successful upload of an empty file over
\* a store that held rows
C8_Witness ==
    /\ ScanReturned /\ sop = "all" /\ Undisturbed
    /\ wret = "True" /\ wcsv.rows = <<>> /\ DOMAIN prior # {}
    /\ sret = "frame" /\ sdf = EmptyFrame

\* a full scan returned on a store nothing was ever loaded into
C8_NeverLoaded ==
    /\ ScanReturned /\ sop = "all" /\ wcalls = 0 /\ store = EmptyStore
    /\ sret = "frame" /\ sdf = EmptyFrame

\* the fetch loop of the scan ran to its end
ScanFetched ==
    \/ spc = "frame"
    \/ ScanReturned /\ sfail \notin {"RedisError", "JSONDecodeError"}

Min(a, b) == IF a < b THEN a ELSE b

Range(seq) == {seq[j] : j \in 1..Len(seq)}

AllJson(s) == \A k \in DOMAIN s : IsJson(s[k])

\* every stored record carries every categorical column
CompleteStore(s) ==
    /\ AllJson(s)
    /\ \A k \in DOMAIN s : ~MissingColumn(DataFrame(<<loads(s[k])>>))

\* neither a store call nor the plotting failed in the scan
NoScanFault == sfail \notin {"RedisError", "PlotError"}

\* C5 (amended): the recent scan never fetches more than limit records; with
\* no call failing and every stored value decodable it fetches exactly
\* min(limit, number of stored items); and it returns a heatmap whenever
\* moreover limit >= 1, the store is not empty and every stored record
\* carries the six categorical columns.
C5_AtMostLimit ==
    /\ sop = "recent" => Len(sdata) <= slimit /\ Len(skeys) <= slimit
    /\ (ScanReturned /\ sop = "recent" /\ NoScanFault /\ AllJson(store)) =>
          Len(sdata) = Min(slimit, Cardinality(DOMAIN store))
    /\ (ScanReturned /\ sop = "recent" /\ NoScanFault /\ CompleteStore(store)
          /\ slimit >= 1 /\ DOMAIN store # {}) =>
          sret = "heatmap"

\* C5 as stated: at most limit records, and a successful result of exactly
\* min(limit, number of stored items) records whenever the store is not empty
\* (taken here only where no call fails, every stored value decodes and
\* limit >= 1).
C5_AsStated ==
    (ScanReturned /\ sop = "recent" /\ NoScanFault /\ AllJson(store) /\ slimit >= 1) =>
        /\ Len(sdata) <= slimit
        /\ DOMAIN store # {} =>
              /\ sret = "heatmap"
              /\ Len(sdata) = Min(slimit, Cardinality(DOMAIN store))

\* the slice cut the keys of a larger store down to one
C5_Witness ==
    /\ ScanReturned /\ sop = "recent" /\ sret = "heatmap"
    /\ slimit = 1 /\ Cardinality(DOMAIN store) >= 2 /\ Len(sdata) = 1

\* the keys of the recent scan were listed
KeysListed ==
    /\ sop = "recent"
    /\ spc \in {"get", "frame"} \/ (ScanReturned /\ sfail # "RedisError")

ValueAt(i, col) == Lookup(sdata[i], col)
CodeAt(i, col) == Lookup(sdf.rows[i], col).v[1]

\* C9 (amended): in each categorical column every non-null value is
\* replaced by its 0-based rank among the sorted distinct non-null values of
\* the fetched rows (equal values equal codes, distinct values distinct
\* codes, the codes exactly 0 .. d-1, a smaller value never a larger code,
\* Female = 0 and Male = 1), and a null value by -1.
C9_Codes ==
    sret = "heatmap" =>
        \A c \in 1..Len(CategoricalCols) :
            LET col == CategoricalCols[c]
                rows == 1..Len(sdata)
                full == {i \in rows : ValueAt(i, col) # NaN}
                d == Cardinality({ValueAt(i, col) : i \in full})
            IN  /\ Len(sdf.rows) = Len(sdata)
                /\ \A i \in rows \ full : CodeAt(i, col) = -1
                /\ {CodeAt(i, col) : i \in full} = 0..(d - 1)
                /\ \A i, j \in full :
                      /\ ValueAt(i, col) = ValueAt(j, col) <=> CodeAt(i, col) = CodeAt(j, col)
                      /\ ScalarLess(ValueAt(i, col), ValueAt(j, col)) =>
                            CodeAt(i, col) < CodeAt(j, col)
                /\ \A i \in full :
                      (col = Sex /\ d = 2) =>
                          /\ ValueAt(i, col) = Str(Female) => CodeAt(i, col) = 0
                          /\ ValueAt(i, col) = Str(Male) => CodeAt(i, col) = 1

\* C9 as stated: every value gets a code among 0 .. d-1, d the number of
\* distinct values of the column.
C9_AsStated ==
    sret = "heatmap" =>
        \A c \in 1..Len(CategoricalCols) :
            \A i \in 1..Len(sdata) :
                CodeAt(i, CategoricalCols[c]) \in
                    0..(Cardinality({ValueAt(j, CategoricalCols[c]) : j \in 1..Len(sdata)}) - 1)

\* a heatmap over rows of both sexes, one of them without a Stroke value,
\* the first fetched row not holding the smallest value
C9_Witness ==
    /\ sret = "heatmap" /\ Len(sdata) >= 3
    /\ \E i, j \in 1..Len(sdata) :
          /\ ValueAt(i, Sex) = Str(Male) /\ CodeAt(i, Sex) = 1
          /\ ValueAt(j, Sex) = Str(Female) /\ CodeAt(j, Sex) = 0
    /\ ValueAt(1, Sex) = Str(Male)
    /\ \E i \in 1..Len(sdata) : ValueAt(i, Stroke) = NaN /\ CodeAt(i, Stroke) = -1

\* one upload overlapped the scan (or followed it), on a store that was
\* empty when the upload began
OneUploadOnEmpty == wcalls = sepoch + 1 /\ prior = EmptyStore

\* C7 (amended): a scan interleaved with one upload on an empty store
\* fetches from a prefix record_0 .. record_{k-1} of the batch: the full
\* scan the records of all k keys, the recent scan those of the first limit
\* keys of that prefix in descending byte order.
C7_PrefixObserved ==
    (ScanFetched /\ OneUploadOnEmpty) =>
        \E k \in 0..Len(wcsv.rows) :
            /\ Len(sdata) = Len(skeys)
            /\ Cardinality(Range(skeys)) = Len(skeys)
            /\ \A j \in 1..Len(skeys) :
                  /\ skeys[j] \in RecordKeys(k)
                  /\ sdata[j] = wcsv.rows[IndexOf(skeys[j]) + 1]
            /\ sop = "all" => Len(skeys) = k
            /\ sop = "recent" =>
                  /\ Len(skeys) = Min(slimit, k)
                  /\ \A key \in RecordKeys(k) \ Range(skeys) :
                        \A j \in 1..Len(skeys) : LexLess(key, skeys[j])

\* C7 as stated: the result of either scan is the records of record_0 ..
\* record_{k-1} for some k.
C7_AsStated ==
    (ScanFetched /\ OneUploadOnEmpty /\ Len(wcsv.rows) >= 2) =>
        \E k \in 0..Len(wcsv.rows) : SameBag(sdata, SubSeq(wcsv.rows, 1, k))

\* a full scan returned part of the batch while the upload was running
C7_Witness ==
    /\ ScanReturned /\ sop = "all" /\ sret = "frame" /\ OneUploadOnEmpty
    /\ wpc = "set"
    /\ Len(wcsv.rows) >= 2 /\ Len(sdata) > 0 /\ Len(sdata) < Len(wcsv.rows)

\* ... none of it
C7_SeenEmpty ==
    /\ ScanReturned /\ sop = "all" /\ sret = "frame" /\ OneUploadOnEmpty
    /\ sepoch = wcalls - 1 /\ wpc = "set"
    /\ Len(wcsv.rows) >= 2 /\ Len(sdata) = 0

\* ... all of it
C7_SeenFull ==
    /\ ScanReturned /\ sop = "all" /\ sret = "frame" /\ OneUploadOnEmpty
    /\ wpc = "set"
    /\ Len(wcsv.rows) >= 2 /\ Len(sdata) = Len(wcsv.rows)

\* at most one upload overlapped the scan
AtMostOneUpload == wcalls <= sepoch + 1

\* the store as it was when the scan began, while no upload had started
OldContent == IF wcalls = sepoch THEN store ELSE prior

\* C10 (amended): a key listed by keys() whose get returns nothing is passed
\* over: a scan never holds more records than keys it has fetched; a full
\* scan interleaved with one upload over decodable content never returns the
\* failure value unless a store call fails; a recent scan left with no
\* record (every listed key cleared) returns the failure value.
C10_AbsentSkipped ==
    /\ Len(sdata) <= sidx /\ sidx <= Len(skeys)
    /\ (ScanReturned /\ sop = "all" /\ AtMostOneUpload /\ AllJson(OldContent)
          /\ sfail # "RedisError") => sret = "frame"
    /\ (ScanReturned /\ sop = "recent" /\ NoScanFault /\ sdata = <<>>) =>
          sret = "None"

\* C10 as stated: a scan interleaved with one upload over a non-empty store
\* (here one either scan reads successfully when left alone, the new batch
\* too) never fails because of the interleaving.
C10_AsStated ==
    (ScanReturned /\ wcalls = sepoch + 1 /\ NoScanFault
        /\ DOMAIN prior # {} /\ CompleteStore(prior)
        /\ wret = "True" /\ wcsv.rows # <<>> /\ CompleteStore(store)
        /\ (sop = "recent" => slimit >= 1)) =>
        sret # "None"

\* a full scan returned a row of the old content next to a row of the new
\* batch, neither being in the other
C10_Witness ==
    /\ ScanReturned /\ sop = "all" /\ sret = "frame" /\ wcalls = sepoch + 1
    /\ \E i, j \in 1..Len(sdata) :
          /\ \E k \in DOMAIN prior : IsJson(prior[k]) /\ loads(prior[k]) = sdata[i]
          /\ sdata[i] \notin Range(wcsv.rows)
          /\ sdata[j] \in Range(wcsv.rows)
          /\ \A k \in DOMAIN prior : IsJson(prior[k]) => loads(prior[k]) # sdata[j]

\* a listed key was cleared before its get and passed over
C10_SeenSkip ==
    /\ ScanReturned /\ sop = "all" /\ sret = "frame" /\ wcalls = sepoch + 1
    /\ Len(sdata) < Len(skeys)

=============================================================================
